---- MODULE Spec2Model ----
(***************************************************************************)
(* Device gateways of iot_driver_copilot: the JSON-RPC clients, the        *)
(* session store of the Siemens S7-200 SMART gateway and the serialized    *)
(* RTDE client of the AUBO Robot Arm gateway.                              *)
(*                                                                         *)
(* Python values are written as follows.  None is the string "NONE" where  *)
(* a string is expected (a token, a username).  A JSON value in a result   *)
(* field is a record [k, token]: k = "absent" (no such key), "null", or    *)
(* "dict" (an object, whose "token" member is token, "NONE" when the       *)
(* object has none).  A JSON error object {code, message} is a string that *)
(* names it; "ABSENT" says the envelope has no "error" key.                *)
(***************************************************************************)
EXTENDS Naturals, Integers, Sequences, FiniteSets, TLC

\* ------------------------------------------------------------------ bounds
\* Session ids uuid4 can produce in one run.
MaxSessions == 2
\* Inbound commands served in one run.
MaxOps == 3

\* Calls made through one RPC client in one run.
MaxCalls == 3
\* Calls of RTDEClient._send_jsonrpc in one run.
MaxExchanges == 3
\* Bytes the device writes on one connection.
MaxStream == 4
\* Status frames the device emits on one streaming connection.
MaxFrames == 2

VARIABLES
  sessions,   \* siemens: session_id -> [token, username]
  minted,     \* siemens: the uuid4 values login has produced so far
  hnd,        \* siemens: handler context -> its request's local state
  nsent,      \* siemens: requests posted to the device so far
  nops,       \* siemens: inbound commands accepted so far
  issued,     \* history: session_id -> token of the device's login response
  loggedOut,  \* history: session ids a logout has deleted
  client,     \* rpc: which gateway's RPC client is running
  calls,      \* rpc: caller -> the local state of its call
  next_id,    \* rpc: the client's id counter (self._id, _rpc_id_iter)
  lock,       \* rpc: RTDEClient.lock, "free" or the caller holding it
  ncalls,     \* rpc: calls started so far
  rtde_lock,  \* rtde: RTDEClient.lock, "free" or the thread holding it
  thr,        \* rtde: handler thread -> the local state of its _send_jsonrpc
  next_conn,  \* rtde: the connections create_connection has made, plus one
  pending,    \* rtde: requests the device has received and not yet answered
  wire,       \* rtde: connection -> what the device sent and nobody read yet
  nexch,      \* rtde: calls of _send_jsonrpc so far
  tcp_client, \* tcp: which gateway's TCP client is running
  tcp,        \* tcp: the local state of the call in progress
  peer,       \* tcp: the bytes the device has still to write, and what then
  gw,         \* dispatch: which gateway is serving (named by its client)
  cmd,        \* dispatch: the inbound command being served
  sub,        \* telemetry: subscriber -> the state of its rtde_status_stream
  feed,       \* telemetry: subscriber -> bytes its connection has still to deliver
  snap        \* snapshot: requester -> the state of its parse_rtde_status

session_vars == <<sessions, minted, hnd, nsent, nops, issued, loggedOut>>
rpc_vars == <<client, calls, next_id, lock, ncalls>>
rtde_vars == <<rtde_lock, thr, next_conn, pending, wire, nexch>>
tcp_vars == <<tcp_client, tcp, peer>>
dispatch_vars == <<gw, cmd>>
telemetry_vars == <<sub, feed>>
snapshot_vars == <<snap>>
vars == <<session_vars, rpc_vars, rtde_vars, tcp_vars, dispatch_vars, telemetry_vars, snapshot_vars>>
not_session_vars == <<rpc_vars, rtde_vars, tcp_vars, dispatch_vars, telemetry_vars, snapshot_vars>>
not_rpc_vars == <<session_vars, rtde_vars, tcp_vars, dispatch_vars, telemetry_vars, snapshot_vars>>
not_rtde_vars == <<session_vars, rpc_vars, tcp_vars, dispatch_vars, telemetry_vars, snapshot_vars>>
not_tcp_vars == <<session_vars, rpc_vars, rtde_vars, dispatch_vars, telemetry_vars, snapshot_vars>>
not_dispatch_vars == <<session_vars, rpc_vars, rtde_vars, tcp_vars, telemetry_vars, snapshot_vars>>
not_telemetry_vars == <<session_vars, rpc_vars, rtde_vars, tcp_vars, dispatch_vars, snapshot_vars>>
not_snapshot_vars == <<session_vars, rpc_vars, rtde_vars, tcp_vars, dispatch_vars, telemetry_vars>>

\* --------------------------------------------------------------- JSON values
Tokens == {"tokA", "tokB"}
AbsentVal == [k |-> "absent", token |-> "NONE"]
NullVal == [k |-> "null", token |-> "NONE"]
DictVals == {[k |-> "dict", token |-> t] : t \in {"NONE", ""} \cup Tokens}
JsonVals == {AbsentVal, NullVal} \cup DictVals
ErrorObjs == {"E_denied", "E_internal"}

\* What the device's HTTP endpoint can answer to one POST: a transport failure
\* (connect error, timeout), a non-2xx status, a body that is not JSON, or a
\* JSON envelope with any id and any combination of "error" and "result".
HttpReplies ==
  {[t |-> x, id |-> 0, error |-> "ABSENT", result |-> AbsentVal] :
      x \in {"transport", "status", "notjson"}}
  \cup
  {[t |-> "json", id |-> i, error |-> e, result |-> r] :
      i \in 1..2, e \in {"ABSENT"} \cup ErrorObjs, r \in JsonVals}

\* dict.get(key): a missing key reads as None.
DictGet(v) == IF v.k = "absent" THEN NullVal ELSE v

\* A test for None alone, which lets the empty string through.
Truthy_not_none(s) == s # "NONE"

\* Python truthiness of a string-or-None.
Truthy(s) == s # "NONE" /\ s # ""

\* The outcome of a call: exc = "none" is a normal return of val; otherwise the
\* exception raised, with the HTTP status and detail an HTTPException carries.
\* shape says what a normal return hands back: "value", the result field;
\* "envelope", the whole decoded response object (env); "malformed", the
\* gateway's own {"error": ..., "raw": ...} object.
Env(reply) == [id |-> reply.id, error |-> reply.error, result |-> reply.result]
NoEnv == [id |-> 0, error |-> "ABSENT", result |-> AbsentVal]
Returned(v) ==
  [exc |-> "none", status |-> 200, detail |-> "", shape |-> "value", val |-> v,
   env |-> NoEnv]
ReturnedEnvelope(reply) ==
  [exc |-> "none", status |-> 200, detail |-> "", shape |-> "envelope",
   val |-> NullVal, env |-> Env(reply)]
ReturnedMalformed(d) ==
  [exc |-> "none", status |-> 200, detail |-> d, shape |-> "malformed",
   val |-> NullVal, env |-> NoEnv]
Raised(e, s, d) ==
  [exc |-> e, status |-> s, detail |-> d, shape |-> "raise", val |-> NullVal,
   env |-> NoEnv]

\* ------------------------------------------------- siemens_simatic_s_7_200_smart
NoSid == 0
SessIds == 1..MaxSessions
\* Two requests in flight at once on the event loop.
Handlers == {"h1", "h2"}
Usernames == {"", "alice"}
Passwords == {"", "pw"}

jsonrpc_request(reply) ==
  IF reply.t = "transport" THEN Raised("Exception", 500, "transport")
  ELSE IF reply.t = "status" THEN Raised("Exception", 500, "status")
  ELSE IF reply.t = "notjson" THEN Raised("Exception", 500, "notjson")
  ELSE IF reply.error # "ABSENT" THEN Raised("HTTPException", 400, reply.error)
  ELSE Returned(DictGet(reply.result))

get_auth_token(session_id) ==
  IF session_id # NoSid /\ session_id \in DOMAIN sessions
  THEN sessions[session_id].token
  ELSE "NONE"

\* A check of the header alone.
require_session_header_only(session_id) ==
  IF session_id = NoSid
  THEN Raised("HTTPException", 401, "Session not found.")
  ELSE Returned(NullVal)

require_session(session_id) ==
  IF session_id = NoSid \/ session_id \notin DOMAIN sessions
  THEN Raised("HTTPException", 401, "Session not found.")
  ELSE Returned(NullVal)

\* What a handler has seen of the device: "none" before any answer, else the
\* kind of the answer.
ReplyClass(reply) ==
  IF reply.t # "json" THEN reply.t
  ELSE IF reply.error # "ABSENT" THEN "error"
  ELSE IF reply.result.k = "absent" THEN "no_result"
  ELSE IF reply.result.k = "null" THEN "null_result"
  ELSE IF Truthy(reply.result.token) THEN "dict_token"
  ELSE "dict_no_token"

Idle ==
  [op |-> "none", pc |-> "idle", sid |-> NoSid, token |-> "NONE", user |-> "",
   dev |-> "none", out |-> Returned(NullVal)]

\* The handler's response: FastAPI turns an HTTPException into its status and
\* any other exception into 500.
Finish(h, o) == hnd' = [hnd EXCEPT ![h].pc = "done", ![h].out = o]
Answered(h, reply, o) ==
  hnd' = [hnd EXCEPT ![h].pc = "done", ![h].out = o, ![h].dev = ReplyClass(reply)]

Accept(h) == hnd[h].pc = "idle" /\ nops < MaxOps /\ nops' = nops + 1

uuid4 == CHOOSE s \in SessIds : s \notin minted

LoginsInFlight == Cardinality({h \in Handlers : hnd[h].pc = "await_login"})

login_send(h, username, password) ==
  /\ UNCHANGED not_session_vars
  /\ Accept(h)
  /\ Cardinality(minted) + LoginsInFlight < MaxSessions
  /\ IF ~Truthy(username) \/ ~Truthy(password)
     THEN /\ hnd' = [hnd EXCEPT ![h] = [Idle EXCEPT !.op = "login", !.pc = "done",
                !.out = Raised("HTTPException", 400, "Username and password required")]]
          /\ UNCHANGED nsent
     ELSE /\ hnd' = [hnd EXCEPT ![h] = [Idle EXCEPT !.op = "login",
                !.pc = "await_login", !.user = username]]
          /\ nsent' = nsent + 1
  /\ UNCHANGED <<sessions, minted, issued, loggedOut>>

\* login after the device answered: lines 65-71.
LoginStore(session_id, token, username) ==
  sessions' = [s \in DOMAIN sessions \cup {session_id} |->
                 IF s = session_id THEN [token |-> token, username |-> username]
                 ELSE sessions[s]]

login_recv(h, reply) ==
  /\ UNCHANGED not_session_vars
  /\ hnd[h].pc = "await_login"
  /\ LET o == jsonrpc_request(reply) IN
     IF o.exc # "none"
     THEN /\ Answered(h, reply, o)
          /\ UNCHANGED <<sessions, minted, issued>>
     ELSE IF o.val.k # "dict"
     THEN /\ Answered(h, reply, Raised("AttributeError", 500, "NoneType has no get"))
          /\ UNCHANGED <<sessions, minted, issued>>
     ELSE IF ~Truthy(o.val.token)
     THEN /\ Answered(h, reply, Raised("HTTPException", 401, "Authentication failed"))
          /\ UNCHANGED <<sessions, minted, issued>>
     ELSE /\ LoginStore(uuid4, o.val.token, hnd[h].user)
          /\ minted' = minted \cup {uuid4}
          /\ issued' = [s \in DOMAIN issued \cup {uuid4} |->
                          IF s = uuid4 THEN reply.result.token ELSE issued[s]]
          /\ hnd' = [hnd EXCEPT ![h].pc = "done", ![h].sid = uuid4,
                                ![h].token = o.val.token,
                                ![h].dev = ReplyClass(reply),
                                ![h].out = Returned(o.val)]
  /\ UNCHANGED <<nsent, nops, loggedOut>>

\* if session_id and session_id in sessions
SessionKnown(session_id) == session_id # NoSid /\ session_id \in DOMAIN sessions

\* A logout that demands a session, as the protected operations do.
logout_absent_unauthorized == Raised("HTTPException", 401, "Session not found.")

\* What logout answers when the session is not in the store.
logout_absent == Returned(NullVal)

logout_send(h, session_id) ==
  /\ UNCHANGED not_session_vars
  /\ Accept(h)
  /\ IF SessionKnown(session_id)
     THEN /\ hnd' = [hnd EXCEPT ![h] = [Idle EXCEPT !.op = "logout",
                !.pc = "await_logout", !.sid = session_id,
                !.token = sessions[session_id].token]]
          /\ nsent' = nsent + 1
     ELSE /\ hnd' = [hnd EXCEPT ![h] = [Idle EXCEPT !.op = "logout", !.pc = "done",
                !.sid = session_id, !.out = logout_absent]]
          /\ UNCHANGED nsent
  /\ UNCHANGED <<sessions, minted, issued, loggedOut>>

\* A logout that forgets the del.
SessionsDel_keep(session_id) == sessions

\* del sessions[session_id]
SessionsDel(session_id) == [s \in DOMAIN sessions \ {session_id} |-> sessions[s]]

\* No try/except around the device call.
TryExceptPass_reraise(o) == o

\* try: await jsonrpc_request(...) except Exception: pass
TryExceptPass(o) == IF o.exc # "none" THEN Returned(NullVal) ELSE o

\* The device's answer is swallowed, then the del runs: it raises KeyError when
\* another logout has already deleted the entry.
logout_recv(h, reply) ==
  /\ UNCHANGED not_session_vars
  /\ hnd[h].pc = "await_logout"
  /\ LET o == TryExceptPass(jsonrpc_request(reply)) IN
     IF o.exc # "none"
     THEN /\ Answered(h, reply, o)
          /\ UNCHANGED <<sessions, loggedOut>>
     ELSE IF hnd[h].sid \in DOMAIN sessions
     THEN /\ sessions' = SessionsDel(hnd[h].sid)
          /\ loggedOut' = loggedOut \cup {hnd[h].sid}
          /\ Answered(h, reply, Returned(NullVal))
     ELSE /\ Answered(h, reply, Raised("KeyError", 500, "session_id"))
          /\ UNCHANGED <<sessions, loggedOut>>
  /\ UNCHANGED <<minted, nsent, nops, issued>>

\* perm and browse: Depends(require_session) runs first, in the threadpool; the
\* endpoint body runs in a later step of the event loop.
perm_browse_dep(h, op, session_id) ==
  /\ UNCHANGED not_session_vars
  /\ Accept(h)
  /\ op \in {"perm", "browse"}
  /\ LET o == require_session(session_id) IN
     IF o.exc # "none"
     THEN hnd' = [hnd EXCEPT ![h] = [Idle EXCEPT !.op = op, !.pc = "done",
                     !.sid = session_id, !.out = o]]
     ELSE hnd' = [hnd EXCEPT ![h] = [Idle EXCEPT !.op = op, !.pc = "dep_done",
                     !.sid = session_id]]
  /\ UNCHANGED <<sessions, minted, nsent, issued, loggedOut>>

perm_browse_body(h) ==
  /\ UNCHANGED not_session_vars
  /\ hnd[h].pc = "dep_done"
  /\ hnd' = [hnd EXCEPT ![h].pc = "await_rpc",
                        ![h].token = get_auth_token(hnd[h].sid)]
  /\ nsent' = nsent + 1
  /\ UNCHANGED <<sessions, minted, nops, issued, loggedOut>>

\* read: the check, the token lookup and the post happen without suspension.
read_send(h, session_id) ==
  /\ UNCHANGED not_session_vars
  /\ Accept(h)
  /\ IF session_id = NoSid \/ session_id \notin DOMAIN sessions
     THEN /\ hnd' = [hnd EXCEPT ![h] = [Idle EXCEPT !.op = "read", !.pc = "done",
                !.sid = session_id,
                !.out = Raised("HTTPException", 401, "Session not found.")]]
          /\ UNCHANGED nsent
     ELSE /\ hnd' = [hnd EXCEPT ![h] = [Idle EXCEPT !.op = "read",
                !.pc = "await_rpc", !.sid = session_id,
                !.token = sessions[session_id].token]]
          /\ nsent' = nsent + 1
  /\ UNCHANGED <<sessions, minted, issued, loggedOut>>

\* write: the check and the token lookup, then await request.json().
write_check(h, session_id) ==
  /\ UNCHANGED not_session_vars
  /\ Accept(h)
  /\ IF session_id = NoSid \/ session_id \notin DOMAIN sessions
     THEN hnd' = [hnd EXCEPT ![h] = [Idle EXCEPT !.op = "write", !.pc = "done",
                !.sid = session_id,
                !.out = Raised("HTTPException", 401, "Session not found.")]]
     ELSE hnd' = [hnd EXCEPT ![h] = [Idle EXCEPT !.op = "write",
                !.pc = "await_body", !.sid = session_id,
                !.token = sessions[session_id].token]]
  /\ UNCHANGED <<sessions, minted, nsent, issued, loggedOut>>

write_body(h, bodyIsJson) ==
  /\ UNCHANGED not_session_vars
  /\ hnd[h].pc = "await_body"
  /\ IF bodyIsJson
     THEN /\ hnd' = [hnd EXCEPT ![h].pc = "await_rpc"]
          /\ nsent' = nsent + 1
     ELSE /\ Finish(h, Raised("JSONDecodeError", 500, "body"))
          /\ UNCHANGED nsent
  /\ UNCHANGED <<sessions, minted, nops, issued, loggedOut>>

\* perm, browse, read, write after the device answered: return result.
protected_recv(h, reply) ==
  /\ UNCHANGED not_session_vars
  /\ hnd[h].pc = "await_rpc"
  /\ Answered(h, reply, jsonrpc_request(reply))
  /\ UNCHANGED <<sessions, minted, nsent, nops, issued, loggedOut>>

\* The response has been written; the context serves the next request.
respond(h) ==
  /\ UNCHANGED not_session_vars
  /\ hnd[h].pc = "done"
  /\ hnd' = [hnd EXCEPT ![h] = Idle]
  /\ UNCHANGED <<sessions, minted, nsent, nops, issued, loggedOut>>

\* The state of an RPC client that is not running.
RpcOff ==
  /\ client = "none"
  /\ calls = << >>
  /\ next_id = 1
  /\ lock = "free"
  /\ ncalls = 0

\* The state of an RTDEClient that is not running.
RtdeOff ==
  /\ rtde_lock = "free"
  /\ thr = << >>
  /\ next_conn = 1
  /\ pending = {}
  /\ wire = << >>
  /\ nexch = 0

\* The state of the TCP clients when none is running.
TcpOff ==
  /\ tcp_client = "none"
  /\ tcp = << >>
  /\ peer = << >>

\* The state of the command handlers when no gateway is serving.
DispatchOff ==
  /\ gw = "none"
  /\ cmd = << >>

\* The state of the telemetry stream when nobody has subscribed to it.
TelemetryOff ==
  /\ sub = << >>
  /\ feed = << >>

\* The state of the one-shot status requests when none has been made.
SnapshotOff == snap = << >>

SessionInit ==
  /\ RpcOff
  /\ RtdeOff
  /\ TcpOff
  /\ DispatchOff
  /\ TelemetryOff
  /\ SnapshotOff
  /\ sessions = << >>
  /\ minted = {}
  /\ hnd = [h \in Handlers |-> Idle]
  /\ nsent = 0
  /\ nops = 0
  /\ issued = << >>
  /\ loggedOut = {}

SessionNext ==
  \/ \E h \in Handlers, u \in Usernames, p \in Passwords : login_send(h, u, p)
  \/ \E h \in Handlers, r \in HttpReplies : login_recv(h, r)
  \/ \E h \in Handlers, s \in SessIds \cup {NoSid} : logout_send(h, s)
  \/ \E h \in Handlers, r \in HttpReplies : logout_recv(h, r)
  \/ \E h \in Handlers, op \in {"perm", "browse"}, s \in SessIds \cup {NoSid} :
        perm_browse_dep(h, op, s)
  \/ \E h \in Handlers : perm_browse_body(h)
  \/ \E h \in Handlers, s \in SessIds \cup {NoSid} : read_send(h, s)
  \/ \E h \in Handlers, s \in SessIds \cup {NoSid} : write_check(h, s)
  \/ \E h \in Handlers, b \in BOOLEAN : write_body(h, b)
  \/ \E h \in Handlers, r \in HttpReplies : protected_recv(h, r)
  \/ \E h \in Handlers : respond(h)

SpecSession == SessionInit /\ [][SessionNext]_vars

\* ------------------------------------------------------ claims, SpecSession
ProtectedOps == {"perm", "browse", "read", "write"}
SessionNotFound == Raised("HTTPException", 401, "Session not found.")

\* C1: a session id returned by a successful login resolves to the token of
\* the device's login response until a logout deletes it; once a logout has
\* deleted it, resolving it (require_session, get_auth_token) fails with
\* SessionNotFound, for ever after.
C1_SessionLifecycle ==
  \A s \in DOMAIN issued :
    /\ s \notin loggedOut =>
          /\ require_session(s).exc = "none"
          /\ get_auth_token(s) = issued[s]
    /\ s \in loggedOut =>
          /\ require_session(s) = SessionNotFound
          /\ get_auth_token(s) = "NONE"

\* C1 witness: a protected operation presented a logged-out session id and
\* was refused.
C1_Witness ==
  \E h \in Handlers :
    /\ hnd[h].pc = "done" /\ hnd[h].op \in ProtectedOps
    /\ hnd[h].sid \in loggedOut /\ hnd[h].sid \in DOMAIN issued
    /\ hnd[h].out = SessionNotFound

\* C2: a protected operation (perm, browse, read, write) invoked with no
\* session id, or with one that is not in the store, ends at once with
\* SessionNotFound (401) and posts nothing to the device.
C2_ProtectedNeedsSession ==
  [][\A h \in Handlers :
       (/\ hnd[h].pc = "idle"
        /\ hnd'[h].op \in ProtectedOps
        /\ ~SessionKnown(hnd'[h].sid))
       => (/\ hnd'[h].pc = "done"
           /\ hnd'[h].out = SessionNotFound
           /\ hnd'[h].dev = "none"
           /\ nsent' = nsent)]_vars

\* C2 witness: a protected operation with an id that is not in the store has
\* been refused while another session exists.
C2_Witness ==
  \E h \in Handlers :
    /\ hnd[h].pc = "done" /\ hnd[h].op \in ProtectedOps
    /\ hnd[h].sid # NoSid /\ hnd[h].sid \notin DOMAIN sessions
    /\ hnd[h].out = SessionNotFound
    /\ DOMAIN sessions # {}

\* C3: a logout of a stored session that has heard from the device, whatever
\* the device answered (result, error object, transport failure), leaves the
\* session out of the store, and its response is never the device's failure:
\* it is the success, or the KeyError of a del that found the entry gone.
C3_LogoutRemoves ==
  \A h \in Handlers :
    (hnd[h].pc = "done" /\ hnd[h].op = "logout" /\ hnd[h].dev # "none")
    => /\ hnd[h].sid \notin DOMAIN sessions
       /\ hnd[h].out \in {Returned(NullVal), Raised("KeyError", 500, "session_id")}

\* C3 witness: a logout whose device call failed has removed the session and
\* answered with success.
C3_Witness ==
  \E h \in Handlers :
    /\ hnd[h].pc = "done" /\ hnd[h].op = "logout"
    /\ hnd[h].dev \in {"transport", "status", "error"}
    /\ hnd[h].sid \in loggedOut
    /\ hnd[h].out = Returned(NullVal)

\* C4: a logout with a session id that is not in the store (never issued,
\* already logged out, or no header) answers with success in the same step,
\* leaves the store as it was and posts nothing to the device.
C4_LogoutAbsentNoop ==
  [][\A h \in Handlers :
       (/\ hnd[h].pc = "idle"
        /\ hnd'[h].op = "logout"
        /\ ~SessionKnown(hnd'[h].sid))
       => (/\ hnd'[h].pc = "done"
           /\ hnd'[h].out = Returned(NullVal)
           /\ hnd'[h].dev = "none"
           /\ sessions' = sessions
           /\ nsent' = nsent)]_vars

\* C4 witness: a second logout of a session that a first logout deleted has
\* answered with success without contacting the device.
C4_Witness ==
  \E h \in Handlers :
    /\ hnd[h].pc = "done" /\ hnd[h].op = "logout"
    /\ hnd[h].sid \in loggedOut
    /\ hnd[h].dev = "none"
    /\ hnd[h].out = Returned(NullVal)

\* C5: a login that the device denies (an error object) or answers without a
\* token (no result, a null result, a result without a non-empty token) fails
\* with AuthenticationFailed (401) and stores no session.
C5_LoginAuthenticationFailed ==
  \A h \in Handlers :
    (/\ hnd[h].pc = "done" /\ hnd[h].op = "login"
     /\ hnd[h].dev \in {"error", "no_result", "null_result", "dict_no_token"})
    => /\ hnd[h].out.exc = "HTTPException"
       /\ hnd[h].out.status = 401
       /\ hnd[h].sid = NoSid

\* ------------------------------------------------------------ the RPC clients
\* One gateway's client per run.  AuboJsonRpcClient (AUBO Robot), aubo_json_rpc
\* (AUBO Robotic Arm Controller), jsonrpc_call (aubo_robot_controller) and
\* jsonrpc_request (siemens) post over HTTP from coroutines of one event loop;
\* aubo_jsonrpc_call (AUBO Robotic Arm) and tcp_send_recv (aubo_robot_system)
\* open a TCP socket per call under an HTTPServer that serves one request at a
\* time; RTDEClient (AUBO Robot Arm) opens a TCP socket per call under a lock,
\* from the threads of a ThreadingMixIn server.
Clients ==
  {"AuboJsonRpcClient", "aubo_jsonrpc_call", "RTDEClient", "aubo_json_rpc",
   "jsonrpc_call", "tcp_send_recv", "jsonrpc_request"}
TcpClients == {"aubo_jsonrpc_call", "RTDEClient", "tcp_send_recv"}
SerialServers == {"aubo_jsonrpc_call", "tcp_send_recv"}
Callers == {"c1", "c2"}
Methods == {"get_status", "set_io"}

\* aubo_robot_system: the id each route writes into its request.
RouteId(method) == IF method = "get_status" THEN 1 ELSE 2

\* A client that writes the route's literal id, as aubo_robot_system does.
RequestId_literal(cl, method) == RouteId(method)

\* The id a call puts in its request.  The counters (self._id, the generator
\* _rpc_id_iter) hand out next_id; a uuid4 is a value not drawn before, for
\* which the same counter stands; the other clients write a literal.
RequestId(cl, method) ==
  IF cl \in {"AuboJsonRpcClient", "aubo_jsonrpc_call", "jsonrpc_request"}
  THEN next_id
  ELSE IF cl = "tcp_send_recv" THEN RouteId(method)
  ELSE 1

\* The envelopes a device may answer with: a result alone, an error alone, or
\* both; the id is the request's or another one.
EnvBodies ==
  {[error |-> "ABSENT", result |-> r] : r \in JsonVals \ {[k |-> "dict", token |-> ""]}}
  \cup {[error |-> e, result |-> AbsentVal] : e \in ErrorObjs}
  \cup {[error |-> "E_denied", result |-> [k |-> "dict", token |-> "tokA"]]}

RpcReplies(cl, id) ==
  {[t |-> x, id |-> 0, error |-> "ABSENT", result |-> AbsentVal] :
      x \in IF cl \in TcpClients THEN {"transport", "eof", "notjson"}
            ELSE {"transport", "status", "notjson"}}
  \cup
  {[t |-> "json", id |-> i, error |-> b.error, result |-> b.result] :
      i \in {id, id + 1}, b \in EnvBodies}

AnyRpcReply == UNION {RpcReplies(cl, i) : cl \in Clients, i \in 1..MaxCalls}

\* AUBO Robot: AuboJsonRpcClient.call after the post.
AuboJsonRpcClient_call(reply) ==
  IF reply.t = "transport" THEN Raised("HTTPException", 502, "Error contacting robot")
  ELSE IF reply.t = "status" THEN Raised("HTTPException", 500, "Robot API error")
  ELSE IF reply.t = "notjson" THEN Raised("HTTPException", 502, "Invalid response from robot")
  ELSE IF reply.error # "ABSENT" THEN Raised("HTTPException", 500, reply.error)
  ELSE Returned(DictGet(reply.result))

\* AUBO Robotic Arm: aubo_jsonrpc_call after the connect.
aubo_jsonrpc_call(reply) ==
  IF reply.t = "transport" THEN Raised("Exception", 500, "transport")
  ELSE IF reply.t = "eof" THEN Raised("Exception", 500, "No response from robot")
  ELSE IF reply.t = "notjson" THEN Raised("Exception", 500, "notjson")
  ELSE ReturnedEnvelope(reply)

\* AUBO Robot Arm: RTDEClient._send_jsonrpc inside the lock.
_send_jsonrpc(reply) ==
  IF reply.t = "transport" THEN Raised("Exception", 500, "transport")
  ELSE IF reply.t \in {"eof", "notjson"} THEN ReturnedMalformed("Malformed response")
  ELSE ReturnedEnvelope(reply)

\* AUBO Robotic Arm Controller: aubo_json_rpc after the post.
aubo_json_rpc(reply) ==
  IF reply.t # "json" THEN Raised("Exception", 500, reply.t)
  ELSE IF reply.error # "ABSENT" THEN Raised("HTTPException", 500, reply.error)
  ELSE Returned(DictGet(reply.result))

\* aubo_robot_controller: jsonrpc_call after the post; resp.get("result", {}).
jsonrpc_call(reply) ==
  IF reply.t # "json" THEN Raised("Exception", 500, reply.t)
  ELSE IF reply.error # "ABSENT" THEN Raised("Exception", 500, reply.error)
  ELSE IF reply.result.k = "absent" THEN Returned([k |-> "dict", token |-> "NONE"])
  ELSE Returned(reply.result)

\* aubo_robot_system: tcp_send_recv after the connect.
tcp_send_recv(reply) ==
  IF reply.t = "transport" THEN Raised("Exception", 500, "transport")
  ELSE IF reply.t \in {"eof", "notjson"}
  THEN ReturnedMalformed("Invalid response from robot")
  ELSE ReturnedEnvelope(reply)

invoke(cl, reply) ==
  CASE cl = "AuboJsonRpcClient" -> AuboJsonRpcClient_call(reply)
    [] cl = "aubo_jsonrpc_call" -> aubo_jsonrpc_call(reply)
    [] cl = "RTDEClient" -> _send_jsonrpc(reply)
    [] cl = "aubo_json_rpc" -> aubo_json_rpc(reply)
    [] cl = "jsonrpc_call" -> jsonrpc_call(reply)
    [] cl = "tcp_send_recv" -> tcp_send_recv(reply)
    [] cl = "jsonrpc_request" -> jsonrpc_request(reply)

NoReply == [t |-> "none", id |-> 0, error |-> "ABSENT", result |-> AbsentVal]
NoCall ==
  [pc |-> "idle", id |-> 0, method |-> "none", reply |-> NoReply,
   out |-> Returned(NullVal)]

\* A call starts: the request is built with its id and, except under the RTDE
\* lock, is on its way to the device when the caller suspends.
call_start(c, method) ==
  /\ UNCHANGED not_rpc_vars
  /\ calls[c].pc = "idle"
  /\ ncalls < MaxCalls
  /\ client \in SerialServers => \A d \in Callers : calls[d].pc = "idle"
  /\ calls' = [calls EXCEPT ![c] = [NoCall EXCEPT
        !.pc = IF client = "RTDEClient" THEN "waitlock" ELSE "outstanding",
        !.id = RequestId(client, method), !.method = method]]
  /\ next_id' = IF client \in {"AuboJsonRpcClient", "aubo_jsonrpc_call", "jsonrpc_request"}
                THEN next_id + 1 ELSE next_id
  /\ ncalls' = ncalls + 1
  /\ UNCHANGED <<client, lock>>

\* with self.lock: ... sock.sendall(msg)
lock_acquire(c) ==
  /\ UNCHANGED not_rpc_vars
  /\ calls[c].pc = "waitlock"
  /\ lock = "free"
  /\ lock' = c
  /\ calls' = [calls EXCEPT ![c].pc = "outstanding"]
  /\ UNCHANGED <<client, next_id, ncalls>>

\* The exchange ends: the device's answer, or the failure to get one, becomes
\* the call's outcome.
call_return(c, reply) ==
  /\ UNCHANGED not_rpc_vars
  /\ calls[c].pc = "outstanding"
  /\ reply \in RpcReplies(client, calls[c].id)
  /\ calls' = [calls EXCEPT ![c].pc = "done", ![c].reply = reply,
                            ![c].out = invoke(client, reply)]
  /\ lock' = IF client = "RTDEClient" THEN "free" ELSE lock
  /\ UNCHANGED <<client, next_id, ncalls>>

\* The caller has its outcome and may call again.
call_end(c) ==
  /\ UNCHANGED not_rpc_vars
  /\ calls[c].pc = "done"
  /\ calls' = [calls EXCEPT ![c] = NoCall]
  /\ UNCHANGED <<client, next_id, lock, ncalls>>

\* The state of the session gateway when it is not running.
SessionOff ==
  /\ sessions = << >>
  /\ minted = {}
  /\ hnd = << >>
  /\ nsent = 0
  /\ nops = 0
  /\ issued = << >>
  /\ loggedOut = {}

RpcInit ==
  /\ SessionOff
  /\ RtdeOff
  /\ TcpOff
  /\ DispatchOff
  /\ TelemetryOff
  /\ SnapshotOff
  /\ client \in Clients
  /\ calls = [c \in Callers |-> NoCall]
  /\ next_id = 1
  /\ lock = "free"
  /\ ncalls = 0

RpcNext ==
  \/ \E c \in Callers, m \in Methods : call_start(c, m)
  \/ \E c \in Callers : lock_acquire(c)
  \/ \E c \in Callers, r \in AnyRpcReply : call_return(c, r)
  \/ \E c \in Callers : call_end(c)

SpecRpc == RpcInit /\ [][RpcNext]_vars

\* ---------------------------------------------------------- claims, SpecRpc
\* C6: in every client, a call the device answers with {result: X} returns
\* exactly X, and a call the device answers with {error: E} does not return
\* normally: it raises, and the exception carries E unchanged.
C6_InvokeResultOrProtocolError ==
  \A c \in Callers :
    (calls[c].pc = "done" /\ calls[c].reply.t = "json")
    => /\ (calls[c].reply.error = "ABSENT" /\ calls[c].reply.result.k # "absent")
          => (/\ calls[c].out.exc = "none"
              /\ calls[c].out.shape = "value"
              /\ calls[c].out.val = calls[c].reply.result)
       /\ (calls[c].reply.error # "ABSENT" /\ calls[c].reply.result.k = "absent")
          => (/\ calls[c].out.exc # "none"
              /\ calls[c].out.detail = calls[c].reply.error)

\* C7: a call whose decoded response carries an id other than the id of the
\* request it sent fails (MalformedResponse); it never returns normally.
C7_IdMismatchIsMalformed ==
  \A c \in Callers :
    (calls[c].pc = "done" /\ calls[c].reply.t = "json"
       /\ calls[c].reply.id # calls[c].id)
    => calls[c].out.exc # "none"

\* C8: in every gateway, two requests of one client that are outstanding at
\* the same time carry different ids.
C8_OutstandingIdsDistinct ==
  \A c \in Callers, d \in Callers :
    (c # d /\ calls[c].pc = "outstanding" /\ calls[d].pc = "outstanding")
    => calls[c].id # calls[d].id

\* ------------------------------------------- AUBO Robot Arm: RTDEClient, in steps
\* The handler threads of ThreadedHTTPServer call rtde._send_jsonrpc.  A
\* connection is named by a number; the device answers a request on the
\* connection it came in on, and an answer to a connection that has been closed
\* is lost.  req numbers the calls: it is what tells one caller's request, and
\* the answer to it, from another's, since every request carries "id": 1.
RtdeThreads == {"t1", "t2"}
RtdeMethods == {"get_status", "exec_script"}
NoSock == 0
ConnIds == 1..MaxExchanges

\* What the device writes back to one request: a result, an error object,
\* bytes that are no JSON, or nothing before it closes.
RtdeReplies ==
  {[t |-> "json", id |-> 1, error |-> "ABSENT", result |-> [k |-> "dict", token |-> "NONE"]],
   [t |-> "json", id |-> 1, error |-> "E_internal", result |-> AbsentVal],
   [t |-> "notjson", id |-> 0, error |-> "ABSENT", result |-> AbsentVal],
   [t |-> "eof", id |-> 0, error |-> "ABSENT", result |-> AbsentVal]}

NoThread ==
  [pc |-> "idle", method |-> "none", req |-> 0, sock |-> NoSock, got |-> 0,
   contended |-> FALSE, out |-> Returned(NullVal)]

OpenSocks == {thr[t].sock : t \in RtdeThreads} \ {NoSock}
InExchange(t) == thr[t].pc \in {"locked", "connected", "recv"}

\* Lines 18-25: the payload is built, then the thread is at "with self.lock".
rtde_call(t, method) ==
  /\ UNCHANGED not_rtde_vars
  /\ thr[t].pc = "idle"
  /\ nexch < MaxExchanges
  /\ nexch' = nexch + 1
  /\ thr' = [thr EXCEPT ![t] = [NoThread EXCEPT !.pc = "waitlock",
        !.method = method, !.req = nexch + 1,
        !.contended = \E u \in RtdeThreads : u # t /\ thr[u].pc \in {"waitlock", "locked", "connected", "recv"}]]
  /\ UNCHANGED <<rtde_lock, next_conn, pending, wire>>

\* A cached connection, used again by every call.
create_connection_reused == CHOOSE c \in ConnIds : \A d \in ConnIds : c <= d

\* socket.create_connection: a connection that did not exist before.
create_connection == next_conn

\* A lock that lets every thread in.
LockFree_always == TRUE

\* threading.Lock: acquire blocks until the lock is free.
LockFree == rtde_lock = "free"

rtde_lock_acquire(t) ==
  /\ UNCHANGED not_rtde_vars
  /\ thr[t].pc = "waitlock"
  /\ LockFree
  /\ rtde_lock' = t
  /\ thr' = [thr EXCEPT ![t].pc = "locked"]
  /\ UNCHANGED <<next_conn, pending, wire, nexch>>

\* A lock taken with acquire() and given back by a release() at the end of the
\* body: an exception leaves it held.
ExitWith_holding(t, o, got) ==
  /\ thr' = [thr EXCEPT ![t].pc = "done", ![t].sock = NoSock, ![t].out = o,
                        ![t].got = got]
  /\ wire' = IF thr[t].sock = NoSock THEN wire
             ELSE [wire EXCEPT ![thr[t].sock] = << >>]
  /\ rtde_lock' = IF o.exc # "none" THEN rtde_lock ELSE "free"

\* Leaving "with sock" closes the socket: what was sent to it and not read is
\* gone.  Leaving "with self.lock" releases the lock.
ExitWith(t, o, got) ==
  /\ thr' = [thr EXCEPT ![t].pc = "done", ![t].sock = NoSock, ![t].out = o,
                        ![t].got = got]
  /\ wire' = IF thr[t].sock = NoSock THEN wire
             ELSE [wire EXCEPT ![thr[t].sock] = << >>]
  /\ rtde_lock' = "free"

\* Line 27: the connection is made, or create_connection raises (refused,
\* timed out) and the exception leaves the lock.
rtde_connect(t, ok) ==
  /\ UNCHANGED not_rtde_vars
  /\ thr[t].pc = "locked"
  /\ IF ok
     THEN /\ thr' = [thr EXCEPT ![t].pc = "connected", ![t].sock = create_connection]
          /\ next_conn' = next_conn + 1
          /\ UNCHANGED <<rtde_lock, wire>>
     ELSE /\ ExitWith(t, Raised("Exception", 500, "transport"), 0)
          /\ UNCHANGED next_conn
  /\ UNCHANGED <<pending, nexch>>

\* Line 28: sendall; the device has the request.
rtde_send(t) ==
  /\ UNCHANGED not_rtde_vars
  /\ thr[t].pc = "connected"
  /\ thr' = [thr EXCEPT ![t].pc = "recv"]
  /\ pending' = pending \cup {[conn |-> thr[t].sock, req |-> thr[t].req]}
  /\ UNCHANGED <<rtde_lock, next_conn, wire, nexch>>

\* Line 28: sendall raises (the connection was reset, the send timed out).
rtde_send_fail(t) ==
  /\ UNCHANGED not_rtde_vars
  /\ thr[t].pc = "connected"
  /\ ExitWith(t, Raised("Exception", 500, "transport"), 0)
  /\ UNCHANGED <<next_conn, pending, nexch>>

\* The device answers a request on the connection it came in on.
device_answer(p, reply) ==
  /\ UNCHANGED not_rtde_vars
  /\ p \in pending
  /\ pending' = pending \ {p}
  /\ wire' = IF p.conn \in OpenSocks
             THEN [wire EXCEPT ![p.conn] = Append(@, [reply |-> reply, req |-> p.req])]
             ELSE wire
  /\ UNCHANGED <<rtde_lock, thr, next_conn, nexch>>

\* Lines 29-39: the receive loop gets what the device wrote, the response is
\* decoded and returned.
rtde_recv(t) ==
  /\ UNCHANGED not_rtde_vars
  /\ thr[t].pc = "recv"
  /\ wire[thr[t].sock] # << >>
  /\ LET m == Head(wire[thr[t].sock]) IN
       ExitWith(t, _send_jsonrpc(m.reply), m.req)
  /\ UNCHANGED <<next_conn, pending, nexch>>

\* Line 31: nothing arrives within self.timeout; recv raises socket.timeout.
rtde_timeout(t) ==
  /\ UNCHANGED not_rtde_vars
  /\ thr[t].pc = "recv"
  /\ wire[thr[t].sock] = << >>
  /\ ExitWith(t, Raised("Exception", 500, "transport"), 0)
  /\ UNCHANGED <<next_conn, pending, nexch>>

\* The handler has written its response; the thread ends.
rtde_end(t) ==
  /\ UNCHANGED not_rtde_vars
  /\ thr[t].pc = "done"
  /\ thr' = [thr EXCEPT ![t] = NoThread]
  /\ UNCHANGED <<rtde_lock, next_conn, pending, wire, nexch>>

RtdeInit ==
  /\ SessionOff
  /\ RpcOff
  /\ TcpOff
  /\ DispatchOff
  /\ TelemetryOff
  /\ SnapshotOff
  /\ rtde_lock = "free"
  /\ thr = [t \in RtdeThreads |-> NoThread]
  /\ next_conn = 1
  /\ pending = {}
  /\ wire = [c \in ConnIds |-> << >>]
  /\ nexch = 0

RtdeNext ==
  \/ \E t \in RtdeThreads, m \in RtdeMethods : rtde_call(t, m)
  \/ \E t \in RtdeThreads : rtde_lock_acquire(t)
  \/ \E t \in RtdeThreads, ok \in BOOLEAN : rtde_connect(t, ok)
  \/ \E t \in RtdeThreads : rtde_send(t)
  \/ \E t \in RtdeThreads : rtde_send_fail(t)
  \/ \E p \in [conn : ConnIds, req : 1..MaxExchanges], r \in RtdeReplies :
        device_answer(p, r)
  \/ \E t \in RtdeThreads : rtde_recv(t)
  \/ \E t \in RtdeThreads : rtde_timeout(t)
  \/ \E t \in RtdeThreads : rtde_end(t)

SpecRTDE == RtdeInit /\ [][RtdeNext]_vars

\* Every blocking step of an exchange returns or times out (connect and recv
\* under self.timeout, sendall under the same socket timeout), and a thread
\* blocked in acquire is not passed over for ever when the lock keeps being
\* released.
RtdeFairness ==
  \A t \in RtdeThreads :
    /\ SF_vars(rtde_lock_acquire(t))
    /\ WF_vars(\E ok \in BOOLEAN : rtde_connect(t, ok))
    /\ WF_vars(rtde_send(t) \/ rtde_send_fail(t))
    /\ WF_vars(rtde_recv(t) \/ rtde_timeout(t))

SpecRTDELive == SpecRTDE /\ RtdeFairness

\* --------------------------------------------------------- claims, SpecRTDE
\* C9: a caller of the RTDEClient that gets a response gets the one the device
\* wrote for that caller's own request, never the one written for another
\* caller's request, however the threads interleave.
C9_NoCrossDelivery ==
  \A t \in RtdeThreads :
    (thr[t].pc = "done" /\ thr[t].got # 0) => thr[t].got = thr[t].req

\* C9 witness: two callers whose calls overlapped have both received the
\* response to their own request.
C9_Witness ==
  \E t \in RtdeThreads, u \in RtdeThreads :
    /\ t # u
    /\ thr[t].pc = "done" /\ thr[t].contended /\ thr[t].got = thr[t].req
    /\ thr[t].out.shape = "envelope"
    /\ thr[u].pc = "done" /\ thr[u].got = thr[u].req
    /\ thr[u].out.shape = "envelope"

\* C10: at most one thread is between acquiring the lock and leaving it
\* (connect, send, receive), that thread is the lock's holder, and at most one
\* socket to the device is open: no socket is opened before the previous one is
\* closed.
C10_OneExchangeAtATime ==
  /\ Cardinality({t \in RtdeThreads : InExchange(t)}) <= 1
  /\ Cardinality({t \in RtdeThreads : thr[t].sock # NoSock}) <= 1
  /\ \A t \in RtdeThreads :
       /\ InExchange(t) => rtde_lock = t
       /\ thr[t].sock # NoSock => InExchange(t)

\* C10 witness: one thread is receiving on its open socket while the other
\* waits for the lock.
C10_Witness ==
  \E t \in RtdeThreads, u \in RtdeThreads :
    /\ thr[t].pc = "recv" /\ thr[t].sock # NoSock
    /\ thr[u].pc = "waitlock"

\* ------------------------------------------------ the TCP clients, byte by byte
\* aubo_jsonrpc_call (AUBO Robotic Arm), RTDEClient._send_jsonrpc (AUBO Robot
\* Arm) and tcp_send_recv (aubo_robot_system) each open a socket, write the
\* request followed by a newline and read until their loop ends.  One call is
\* followed step by step.  A byte is "1" (a digit), "SP" (a space) or "LF" (a
\* newline): over these, a JSON text is a run of digits with white space
\* around it, and its value is the number the digits spell.
Bytes == {"1", "SP", "LF"}
Whitespace == {"SP", "LF"}
Streams == UNION {[1..k -> Bytes] : k \in 0..MaxStream}

\* What the device does once it has written its bytes: close the connection,
\* keep it open and stay silent, or reset it.
Afters == {"eof", "silent", "reset"}

MinOf(S) == CHOOSE x \in S : \A y \in S : x <= y
MaxOf(S) == CHOOSE x \in S : \A y \in S : x >= y

\* str.strip(): white space is removed at both ends.
Strip(t) ==
  LET keep == {i \in 1..Len(t) : t[i] \notin Whitespace} IN
    IF keep = {} THEN << >> ELSE SubSeq(t, MinOf(keep), MaxOf(keep))

\* str.split('\n')[0]: what stands before the first newline.
SplitFirst(t) ==
  LET nl == {i \in 1..Len(t) : t[i] = "LF"} IN
    IF nl = {} THEN t ELSE SubSeq(t, 1, MinOf(nl) - 1)

\* b'\n' in chunk
HasNewline(chunk) == \E i \in 1..Len(chunk) : chunk[i] = "LF"

\* data.endswith(b"\n")
EndsWithNewline(data) == data # << >> /\ data[Len(data)] = "LF"

\* json.loads(text): the value, or a failure.
JsonLoads(text) ==
  LET body == Strip(text) IN
    IF body # << >> /\ \A i \in 1..Len(body) : body[i] = "1"
    THEN [ok |-> TRUE, val |-> Len(body)]
    ELSE [ok |-> FALSE, val |-> 0]

\* data + b'\n', (json.dumps(payload) + "\n").encode('utf-8')
Encode(payload) == Append(payload, "LF")

\* The outcome of a call.  framed says that the receive loop ended and handed
\* a text to the JSON parser; frame is that text.
TcpRaised(e) ==
  [exc |-> e, shape |-> "raise", framed |-> FALSE, frame |-> << >>, val |-> 0]
TcpParsed(text) ==
  [exc |-> "none", shape |-> "value", framed |-> TRUE, frame |-> text,
   val |-> JsonLoads(text).val]
TcpParseRaised(text) ==
  [exc |-> "JSONDecodeError", shape |-> "raise", framed |-> TRUE,
   frame |-> text, val |-> 0]
TcpMalformed(text) ==
  [exc |-> "none", shape |-> "malformed", framed |-> TRUE, frame |-> text,
   val |-> 0]

\* AUBO Robotic Arm, lines 47-50: what follows the receive loop.
aubo_jsonrpc_call_decode(resp) ==
  LET resp_str == Strip(SplitFirst(resp)) IN
    IF resp_str = << >> THEN TcpRaised("No response from robot")
    ELSE IF JsonLoads(resp_str).ok THEN TcpParsed(resp_str)
    ELSE TcpParseRaised(resp_str)

\* AUBO Robot Arm, lines 35-39.
send_jsonrpc_decode(data) ==
  LET txt == Strip(data) IN
    IF JsonLoads(txt).ok THEN TcpParsed(txt) ELSE TcpMalformed(txt)

\* aubo_robot_system, lines 34-37.
tcp_send_recv_decode(data) ==
  LET txt == Strip(data) IN
    IF JsonLoads(txt).ok THEN TcpParsed(txt) ELSE TcpMalformed(txt)

decode(cl, data) ==
  CASE cl = "aubo_jsonrpc_call" -> aubo_jsonrpc_call_decode(data)
    [] cl = "RTDEClient" -> send_jsonrpc_decode(data)
    [] cl = "tcp_send_recv" -> tcp_send_recv_decode(data)

\* A receive that takes what one recv returns for the whole response.
LoopEnds_first_chunk(cl, data, chunk) == TRUE

\* Whether the receive loop ends after a chunk: aubo_jsonrpc_call and
\* tcp_send_recv stop at a chunk that holds a newline, RTDEClient when all it
\* has read so far ends with one.
LoopEnds(cl, data, chunk) ==
  IF cl = "RTDEClient" THEN EndsWithNewline(data \o chunk)
  ELSE HasNewline(chunk)

NoTcpCall ==
  [pc |-> "idle", sock |-> "none", data |-> << >>, conns |-> 0, sends |-> 0,
   reads |-> 0, input |-> << >>, after |-> "eof", cause |-> "none",
   out |-> TcpRaised("none")]

\* A socket that is left as it is.
SocketClose_leak(sock) == sock

\* s.close(), and the end of "with socket.create_connection(...) as s".
SocketClose(sock) == IF sock = "open" THEN "closed" ELSE sock

\* The call is over: the socket is closed on the way out.  cause keeps what
\* ended the call: a failed connect or send, a timeout, a reset, the end of the
\* stream, or a chunk that ended the receive loop.
TcpExit(o, cause) ==
  /\ tcp' = [tcp EXCEPT !.pc = "done", !.sock = SocketClose(tcp.sock),
                        !.out = o, !.cause = cause]
  /\ UNCHANGED <<tcp_client, peer>>

\* The call begins; the device's part in it is fixed: the bytes it will write
\* and what it does after them.
tcp_call(stream, after) ==
  /\ UNCHANGED not_tcp_vars
  /\ tcp.pc = "idle"
  /\ tcp' = [NoTcpCall EXCEPT !.pc = "connecting", !.input = stream, !.after = after]
  /\ peer' = [stream |-> stream, after |-> after]
  /\ UNCHANGED tcp_client

\* s.connect / socket.create_connection: made, or refused or timed out.
tcp_connect(ok) ==
  /\ UNCHANGED not_tcp_vars
  /\ tcp.pc = "connecting"
  /\ IF ok
     THEN /\ tcp' = [tcp EXCEPT !.pc = "sending", !.sock = "open", !.conns = @ + 1]
          /\ UNCHANGED <<tcp_client, peer>>
     ELSE /\ tcp' = [tcp EXCEPT !.pc = "done", !.conns = @ + 1,
                                !.sock = SocketClose(tcp.sock),
                                !.cause = "connect",
                                !.out = TcpRaised("ConnectionRefusedError")]
          /\ UNCHANGED <<tcp_client, peer>>

\* sendall: written, or an I/O error.
tcp_send(ok) ==
  /\ UNCHANGED not_tcp_vars
  /\ tcp.pc = "sending"
  /\ IF ok
     THEN /\ tcp' = [tcp EXCEPT !.pc = "recv", !.sends = @ + 1]
          /\ UNCHANGED <<tcp_client, peer>>
     ELSE /\ tcp' = [tcp EXCEPT !.pc = "done", !.sends = @ + 1,
                                !.sock = SocketClose(tcp.sock),
                                !.cause = "send",
                                !.out = TcpRaised("BrokenPipeError")]
          /\ UNCHANGED <<tcp_client, peer>>

\* recv(4096) returns the next n bytes the device wrote; the loop goes on or
\* ends, and when it ends the response is decoded and the call returns.
tcp_recv(n) ==
  /\ UNCHANGED not_tcp_vars
  /\ tcp.pc = "recv"
  /\ n <= Len(peer.stream)
  /\ LET chunk == SubSeq(peer.stream, 1, n)
         data == tcp.data \o chunk
     IN  IF LoopEnds(tcp_client, tcp.data, chunk)
         THEN tcp' = [tcp EXCEPT !.pc = "done", !.data = data, !.reads = @ + 1,
                                 !.sock = SocketClose(tcp.sock),
                                 !.cause = "newline",
                                 !.out = decode(tcp_client, data)]
         ELSE tcp' = [tcp EXCEPT !.data = data, !.reads = @ + 1]
  /\ peer' = [peer EXCEPT !.stream = SubSeq(peer.stream, n + 1, Len(peer.stream))]
  /\ UNCHANGED tcp_client

\* recv returns b"": the device closed the connection; the loop breaks.
tcp_recv_eof ==
  /\ UNCHANGED not_tcp_vars
  /\ tcp.pc = "recv"
  /\ peer.stream = << >>
  /\ peer.after = "eof"
  /\ TcpExit(decode(tcp_client, tcp.data), "eof")

\* No timeout on the socket: recv blocks for as long as nothing arrives.
HasTimeout_none == FALSE

\* s.settimeout(5), create_connection(..., timeout=...): recv raises
\* socket.timeout when nothing arrives in time.
HasTimeout == TRUE

tcp_recv_timeout ==
  /\ UNCHANGED not_tcp_vars
  /\ tcp.pc = "recv"
  /\ peer.stream = << >>
  /\ peer.after = "silent"
  /\ HasTimeout
  /\ TcpExit(TcpRaised("timeout"), "timeout")

\* recv raises ConnectionResetError.
tcp_recv_reset ==
  /\ UNCHANGED not_tcp_vars
  /\ tcp.pc = "recv"
  /\ peer.stream = << >>
  /\ peer.after = "reset"
  /\ TcpExit(TcpRaised("ConnectionResetError"), "reset")

\* The caller has the outcome; the next call may begin.
tcp_end ==
  /\ UNCHANGED not_tcp_vars
  /\ tcp.pc = "done"
  /\ tcp' = NoTcpCall
  /\ peer' = [stream |-> << >>, after |-> "eof"]
  /\ UNCHANGED tcp_client

TcpInit ==
  /\ SessionOff
  /\ RpcOff
  /\ RtdeOff
  /\ DispatchOff
  /\ TelemetryOff
  /\ SnapshotOff
  /\ tcp_client \in TcpClients
  /\ tcp = NoTcpCall
  /\ peer = [stream |-> << >>, after |-> "eof"]

TcpNext ==
  \/ \E st \in Streams, a \in Afters : tcp_call(st, a)
  \/ \E ok \in BOOLEAN : tcp_connect(ok)
  \/ \E ok \in BOOLEAN : tcp_send(ok)
  \/ \E n \in 1..MaxStream : tcp_recv(n)
  \/ tcp_recv_eof
  \/ tcp_recv_timeout
  \/ tcp_recv_reset
  \/ tcp_end

SpecTcp == TcpInit /\ [][TcpNext]_vars

\* The same steps, where a step of the call that can be taken is taken: the
\* thread runs, and the socket's timeout expires when nothing arrives.
SpecTcpLive ==
  /\ TcpInit
  /\ [][TcpNext]_vars
  /\ WF_vars(\E ok \in BOOLEAN : tcp_send(ok))
  /\ WF_vars(\E n \in 1..MaxStream : tcp_recv(n))
  /\ WF_vars(tcp_recv_timeout)

\* ---------------------------------------------------------- claims, SpecTcp
\* The call got as far as reading: the connection was made and the request
\* written.
Exchanged == tcp.pc = "done" /\ tcp.cause \notin {"connect", "send"}

\* C11: in each TCP client, when a call has ended - by a return, an I/O error,
\* a timeout or a response that does not parse - its socket is not open, the
\* call made at most one connection attempt and wrote its request at most
\* once, and a failure has reached the caller: an exception for an I/O error
\* or a timeout, an exception or the gateway's error object for a response
\* that does not parse.
C11_SocketClosedNoRetry ==
  tcp.pc \in {"done", "idle"}
  => /\ tcp.sock # "open"
     /\ tcp.conns <= 1
     /\ tcp.sends <= 1
     /\ tcp.cause \in {"connect", "send", "timeout", "reset"} => tcp.out.exc # "none"
     /\ (tcp.out.framed /\ ~JsonLoads(tcp.out.frame).ok)
        => (tcp.out.exc # "none" \/ tcp.out.shape = "malformed")

\* C11 witness: a call that connected, wrote its request once and read part
\* of a response has ended on a reset, with its socket closed.
C11_Witness ==
  /\ tcp.pc = "done"
  /\ tcp.cause = "reset"
  /\ tcp.reads > 0
  /\ tcp.conns = 1 /\ tcp.sends = 1
  /\ tcp.sock = "closed"
  /\ tcp.out.exc = "ConnectionResetError"

\* C12: a call whose peer took the connection and then writes no newline and
\* keeps the connection open - nothing at all, or the start of a response and
\* no more - ends, and ends with an exception raised to its caller.
C12_SilentPeerTimesOut ==
  (tcp.pc = "recv" /\ tcp.after = "silent" /\ ~HasNewline(tcp.input))
  ~> (tcp.pc = "done" /\ tcp.out.exc # "none")

\* C12 witness: a call to a peer that never wrote a byte has ended on the
\* socket's timeout.
C12_Witness ==
  /\ tcp.pc = "done"
  /\ tcp.input = << >>
  /\ tcp.after = "silent"
  /\ tcp.cause = "timeout"
  /\ tcp.out.exc = "timeout"

\* A payload as a JSON serializer writes it, or an empty one: no newline in
\* it and no white space at its ends.
Payload(P) == ~HasNewline(P) /\ Strip(P) = P

\* C13: when the device writes a frame F (a payload), a newline and then any
\* bytes, then however the bytes are split into reads and whatever the device
\* does after them, the call's receive loop hands exactly F to the parser: the
\* frame is F and nothing of what follows the newline is in it.
C13_DelimiterDecode ==
  (Exchanged /\ HasNewline(tcp.input) /\ Payload(SplitFirst(tcp.input)))
  => (tcp.out.framed /\ tcp.out.frame = SplitFirst(tcp.input))

\* C14: when the bytes the device writes are Encode(P) for a payload P of any
\* length from 0, the call's receive loop hands exactly P to the parser.
C14_FrameRoundTrip ==
  \A P \in Streams :
    (Exchanged /\ Payload(P) /\ tcp.input = Encode(P))
    => (tcp.out.framed /\ tcp.out.frame = P)

\* ------------------------------------------------------- the command handlers
\* One inbound command at a time, from the request to the HTTP response, in
\* each gateway but the Siemens one (whose commands are followed above).  A
\* gateway is named by its client.  The body of a request is nothing at all
\* ("none"), bytes that are no JSON ("invalid"), a non-empty JSON array
\* ("list") or a JSON object ("dict") with the members f.
DispatchGateways == Clients \ {"jsonrpc_request"}

Routes(g) ==
  CASE g = "AuboJsonRpcClient" -> {"status", "io"}
    [] g = "aubo_jsonrpc_call" -> {"status", "traj"}
    [] g = "RTDEClient" -> {"status", "exec", "speed"}
    [] g = "aubo_json_rpc" -> {"status"}
    [] g = "jsonrpc_call" -> {"io_outputs"}
    [] g = "tcp_send_recv" -> {"status", "set_io"}

AllRoutes == UNION {Routes(g) : g \in DispatchGateways}

NoFields ==
  [joints |-> "absent", action |-> "absent", type |-> "absent",
   channel |-> "absent", value |-> "absent", script |-> "absent",
   speed |-> "absent"]

NoBody == [k |-> "none", f |-> NoFields]

\* The bodies a client may post to a route.
Bodies(route) ==
  IF route = "status" THEN {NoBody}
  ELSE
    {[k |-> x, f |-> NoFields] : x \in {"none", "invalid", "list"}}
    \cup
    {[k |-> "dict", f |-> m] : m \in
      CASE route = "traj" ->
             {[NoFields EXCEPT !.joints = j] : j \in {"absent", "null", "numbers", "strings"}}
        [] route = "io" ->
             {[NoFields EXCEPT !.action = a, !.type = t, !.channel = c, !.value = v] :
                a \in {"absent", "read", "write", "erase"},
                t \in {"absent", "digital", "analog"},
                c \in {"absent", "3"}, v \in {"absent", "1"}}
        [] route = "exec" ->
             {[NoFields EXCEPT !.script = x] : x \in {"absent", "", "text"}}
        [] route = "speed" ->
             {[NoFields EXCEPT !.speed = x] : x \in {"absent", "null", "50"}}
        [] OTHER -> {NoFields}}

AllBodies == UNION {Bodies(r) : r \in AllRoutes}

\* The HTTP response.  status 0 says that no response was written: the handler
\* thread died on an exception and the connection was closed.
Answer(status, out) ==
  [status |-> status, detail |-> out.detail, shape |-> out.shape,
   val |-> out.val, env |-> out.env]
ClientError(status, detail) ==
  [status |-> status, detail |-> detail, shape |-> "error", val |-> NullVal,
   env |-> NoEnv]
InternalServerError == ClientError(500, "Internal Server Error")
Aborted == ClientError(0, "")
NoAnswer == ClientError(0, "none")

\* AUBO Robotic Arm, do_POST /traj, lines 149-156.
traj_validate(body) ==
  IF body.k = "list" THEN Aborted
  ELSE IF body.k = "dict" /\ body.f.joints = "numbers" THEN NoAnswer
  ELSE ClientError(400, "Missing or invalid 'joints': must be a list of numbers")

\* AUBO Robot, io_control, lines 75-98.
io_control_validate(body) ==
  IF body.k \in {"none", "invalid"} THEN ClientError(400, "Invalid JSON")
  ELSE IF body.k = "list" THEN InternalServerError
  ELSE IF \/ body.f.action \notin {"read", "write"}
          \/ body.f.type \notin {"digital", "analog"}
          \/ body.f.channel = "absent"
       THEN ClientError(400, "Missing required fields")
  ELSE IF body.f.action = "write" /\ body.f.value = "absent"
       THEN ClientError(400, "Missing 'value' for write action")
  ELSE NoAnswer

\* AUBO Robot Arm, do_POST /exec, lines 111-116.
exec_validate(body) ==
  IF body.k = "list" THEN Aborted
  ELSE IF body.k = "dict" /\ body.f.script = "text" THEN NoAnswer
  ELSE ClientError(400, "Missing script")

\* AUBO Robot Arm, do_POST /speed, lines 121-126.
speed_validate(body) ==
  IF body.k = "list" THEN Aborted
  ELSE IF body.k = "dict" /\ body.f.speed \notin {"absent", "null"} THEN NoAnswer
  ELSE ClientError(400, "Missing speed")

\* aubo_robot_system, do_POST, lines 75-82: any JSON is passed on.
set_io_validate(body) ==
  IF body.k \in {"none", "invalid"} THEN ClientError(400, "Invalid JSON")
  ELSE NoAnswer

\* aubo_robot_controller, post_io: the IOCommand model, all members optional.
io_outputs_validate(body) ==
  IF body.k = "dict" THEN NoAnswer ELSE ClientError(422, "Unprocessable Entity")

\* What the handler answers before it calls the device, NoAnswer when it goes
\* on to the call.
Validate(route, body) ==
  CASE route = "traj" -> traj_validate(body)
    [] route = "io" -> io_control_validate(body)
    [] route = "exec" -> exec_validate(body)
    [] route = "speed" -> speed_validate(body)
    [] route = "set_io" -> set_io_validate(body)
    [] route = "io_outputs" -> io_outputs_validate(body)
    [] OTHER -> NoAnswer

\* What the handler makes of the outcome of its call.
Respond(g, out) ==
  CASE g = "AuboJsonRpcClient" ->
         IF out.exc = "none" THEN Answer(200, out) ELSE Answer(out.status, out)
    [] g = "aubo_jsonrpc_call" ->
         IF out.exc = "none" THEN Answer(200, out) ELSE Answer(500, out)
    [] g = "RTDEClient" ->
         IF out.exc = "none" THEN Answer(200, out) ELSE Aborted
    [] g = "aubo_json_rpc" ->
         IF out.exc = "none" THEN Answer(200, out) ELSE Answer(500, out)
    [] g = "jsonrpc_call" ->
         IF out.exc = "none" THEN Answer(200, out) ELSE Answer(500, out)
    [] g = "tcp_send_recv" ->
         IF out.exc = "none" THEN Answer(200, out) ELSE Aborted

\* A handler that calls again when its call failed.
Retry_on_failure(out) == out.exc # "none"

\* No handler and no client calls the device a second time.
Retry(out) == FALSE

NoCmd ==
  [pc |-> "idle", route |-> "none", body |-> NoBody, sent |-> 0,
   reply |-> NoReply, out |-> Returned(NullVal), resp |-> NoAnswer]

\* The handler takes the request, reads and checks the body and either answers
\* or sends its one request to the device.
do_request(route, body) ==
  /\ UNCHANGED not_dispatch_vars
  /\ cmd.pc = "idle"
  /\ route \in Routes(gw)
  /\ body \in Bodies(route)
  /\ cmd' = IF Validate(route, body) = NoAnswer
            THEN [NoCmd EXCEPT !.pc = "calling", !.route = route,
                               !.body = body, !.sent = 1]
            ELSE [NoCmd EXCEPT !.pc = "done", !.route = route, !.body = body,
                               !.resp = Validate(route, body)]
  /\ UNCHANGED gw

\* The call comes back and the handler writes its response.
device_reply(reply) ==
  /\ UNCHANGED not_dispatch_vars
  /\ cmd.pc = "calling"
  /\ reply \in RpcReplies(gw, 1)
  /\ cmd' = IF Retry(invoke(gw, reply))
            THEN [cmd EXCEPT !.sent = @ + 1]
            ELSE [cmd EXCEPT !.pc = "done", !.reply = reply,
                             !.out = invoke(gw, reply),
                             !.resp = Respond(gw, invoke(gw, reply))]
  /\ UNCHANGED gw

request_end ==
  /\ UNCHANGED not_dispatch_vars
  /\ cmd.pc = "done"
  /\ cmd' = NoCmd
  /\ UNCHANGED gw

DispatchInit ==
  /\ SessionOff
  /\ RpcOff
  /\ RtdeOff
  /\ TcpOff
  /\ TelemetryOff
  /\ SnapshotOff
  /\ gw \in DispatchGateways
  /\ cmd = NoCmd

DispatchNext ==
  \/ \E r \in AllRoutes, b \in AllBodies : do_request(r, b)
  \/ \E r \in AnyRpcReply : device_reply(r)
  \/ request_end

SpecDispatch == DispatchInit /\ [][DispatchNext]_vars

\* ----------------------------------------------------- claims, SpecDispatch
\* The routes whose handler checks the body, and the bodies that carry what
\* the handler's route asks for: joints as a list of numbers; action, type,
\* channel and, to write, value; a script; a speed.
ValidatedRoutes == {"traj", "io", "exec", "speed"}
WellFormed(route, body) ==
  /\ body.k = "dict"
  /\ CASE route = "traj" -> body.f.joints = "numbers"
       [] route = "io" ->
            /\ body.f.action \in {"read", "write"}
            /\ body.f.type \in {"digital", "analog"}
            /\ body.f.channel # "absent"
            /\ body.f.action = "write" => body.f.value # "absent"
       [] route = "exec" -> body.f.script = "text"
       [] route = "speed" -> body.f.speed \notin {"absent", "null"}
       [] OTHER -> TRUE

\* C15: a command to a validated route whose body lacks a required member or
\* carries an invalid one is answered with a client error (4xx), and no
\* request has been sent to the device for it.
C15_ValidationError ==
  (cmd.pc = "done" /\ cmd.route \in ValidatedRoutes
     /\ ~WellFormed(cmd.route, cmd.body))
  => (cmd.resp.status \in 400..499 /\ cmd.sent = 0)

\* C16: a command has sent at most one request to the device, at every moment
\* and whatever came back.
C16_AtMostOneRequest == cmd.sent <= 1

\* C16 witness: a command whose one request failed (no connection, no
\* response in time) has been answered, and that one request is all it sent.
C16_Witness ==
  /\ cmd.pc = "done"
  /\ cmd.reply.t = "transport"
  /\ cmd.out.exc # "none"
  /\ cmd.sent = 1

\* The class of a failed device call, "none" when the device answered with a
\* result, "other" for an HTTP status other than 200.
FailureClass(reply) ==
  IF reply.t = "transport" THEN "Unreachable"
  ELSE IF reply.t \in {"notjson", "eof"} THEN "MalformedResponse"
  ELSE IF reply.t = "json" /\ reply.error # "ABSENT" THEN "ProtocolError"
  ELSE IF reply.t = "json" THEN "none"
  ELSE "other"
FailureClasses == {"Unreachable", "MalformedResponse", "ProtocolError"}

\* C17: a command whose device call failed as Unreachable, MalformedResponse
\* or ProtocolError is not answered with a success status, and a failure of
\* another of these classes would not have been given the same response.
C17_FailureClassPreserved ==
  (cmd.pc = "done" /\ cmd.sent = 1 /\ FailureClass(cmd.reply) \in FailureClasses)
  => /\ cmd.resp.status \notin 200..299
     /\ \A r \in RpcReplies(gw, 1) :
          (FailureClass(r) \in FailureClasses
             /\ FailureClass(r) # FailureClass(cmd.reply))
          => Respond(gw, invoke(gw, r)) # cmd.resp

\* ------------------------------------- aubo_robot_controller: the status stream
\* GET /status with "accept: text/event-stream" answers with a
\* StreamingResponse over a new rtde_status_stream(): an async generator that
\* opens its own connection to the device's streaming port and yields one
\* event for every read.  A byte is a number below 256.  The device's i-th
\* status frame is two bytes, so that a read can end inside a frame as well as
\* take in more than one.
Subs == {"s1", "s2"}
Frame(i) == <<16 * i + 1, 16 * i + 2>>

RECURSIVE DeviceStream(_)
DeviceStream(n) == IF n = 0 THEN << >> ELSE DeviceStream(n - 1) \o Frame(n)

\* bytes.hex(): two hexadecimal digits for every byte.
Hex(data) ==
  [j \in 1..(2 * Len(data)) |->
     IF j % 2 = 1 THEN data[(j + 1) \div 2] \div 16 ELSE data[j \div 2] % 16]

\* payload = {"raw": data.hex()}; the event is "data: <payload>\n\n".
sse_event(data) == [raw |-> Hex(data)]

NoSub ==
  [pc |-> "idle", conn |-> "none", frames |-> 0, got |-> << >>,
   term |-> "none"]

\* A finally block that leaves the writer as it is.
writer_close_skipped(conn) == conn

\* finally: writer.close(); await writer.wait_closed()
writer_close(conn) == IF conn = "open" THEN "closed" ELSE conn

\* The generator is over, through its finally block when it had entered the
\* try.
StreamEnds(u, term) ==
  /\ sub' = [sub EXCEPT ![u].pc = "ended", ![u].term = term,
                        ![u].conn = writer_close(sub[u].conn)]
  /\ feed' = [feed EXCEPT ![u] = << >>]

\* get_status: the subscriber asked for the event stream; the response starts
\* to iterate the generator, which awaits open_connection.  n frames are what
\* the device will emit on this subscriber's connection.
get_status_stream(u, n) ==
  /\ UNCHANGED not_telemetry_vars
  /\ sub[u].pc = "idle"
  /\ sub' = [sub EXCEPT ![u] = [NoSub EXCEPT !.pc = "opening", !.frames = n]]
  /\ feed' = [feed EXCEPT ![u] = DeviceStream(n)]

\* Line 21: the connection is made, or open_connection raises before the try.
open_connection(u, ok) ==
  /\ UNCHANGED not_telemetry_vars
  /\ sub[u].pc = "opening"
  /\ IF ok
     THEN /\ sub' = [sub EXCEPT ![u].pc = "reading", ![u].conn = "open"]
          /\ UNCHANGED feed
     ELSE /\ sub' = [sub EXCEPT ![u].pc = "ended", ![u].term = "error"]
          /\ feed' = [feed EXCEPT ![u] = << >>]

\* Lines 27-32: reader.read(4096) returns the next k bytes and the generator
\* yields the event made of them to the subscriber.
stream_read(u, k) ==
  /\ UNCHANGED not_telemetry_vars
  /\ sub[u].pc = "reading"
  /\ k <= Len(feed[u])
  /\ sub' = [sub EXCEPT ![u].pc = "yielded",
                        ![u].got = Append(@, sse_event(SubSeq(feed[u], 1, k)))]
  /\ feed' = [feed EXCEPT ![u] = SubSeq(@, k + 1, Len(@))]

\* Line 33: the event has been sent; the generator is resumed, sleeps and
\* goes round the loop to the next read.
stream_resume(u) ==
  /\ UNCHANGED not_telemetry_vars
  /\ sub[u].pc = "yielded"
  /\ sub' = [sub EXCEPT ![u].pc = "reading"]
  /\ UNCHANGED feed

\* Lines 28-29: read returns b"", the device closed the stream; break.
stream_eof(u) ==
  /\ UNCHANGED not_telemetry_vars
  /\ sub[u].pc = "reading"
  /\ feed[u] = << >>
  /\ StreamEnds(u, "eof")

\* Line 27: read raises.
stream_error(u) ==
  /\ UNCHANGED not_telemetry_vars
  /\ sub[u].pc = "reading"
  /\ feed[u] = << >>
  /\ StreamEnds(u, "error")

\* The subscriber goes away.  A generator that is inside an await (the
\* connect, the read, the sleep) gets CancelledError there; one that is
\* suspended at its yield is left to be closed by the loop's finalizer.
cancel(u) ==
  /\ UNCHANGED not_telemetry_vars
  /\ sub[u].pc \in {"opening", "reading", "yielded"}
  /\ IF sub[u].pc = "yielded"
     THEN /\ sub' = [sub EXCEPT ![u].pc = "finalizing"]
          /\ UNCHANGED feed
     ELSE StreamEnds(u, "cancelled")

\* aclose() on the abandoned generator: GeneratorExit at the yield, then the
\* finally block.
aclose(u) ==
  /\ UNCHANGED not_telemetry_vars
  /\ sub[u].pc = "finalizing"
  /\ StreamEnds(u, "cancelled")

\* The response is over; the subscriber may subscribe again.
stream_done(u) ==
  /\ UNCHANGED not_telemetry_vars
  /\ sub[u].pc = "ended"
  /\ sub' = [sub EXCEPT ![u] = NoSub]
  /\ UNCHANGED feed

TelemetryInit ==
  /\ SessionOff
  /\ RpcOff
  /\ RtdeOff
  /\ TcpOff
  /\ DispatchOff
  /\ SnapshotOff
  /\ sub = [u \in Subs |-> NoSub]
  /\ feed = [u \in Subs |-> << >>]

TelemetryNext ==
  \/ \E u \in Subs, n \in 0..MaxFrames : get_status_stream(u, n)
  \/ \E u \in Subs, ok \in BOOLEAN : open_connection(u, ok)
  \/ \E u \in Subs, k \in 1..(2 * MaxFrames) : stream_read(u, k)
  \/ \E u \in Subs : stream_resume(u)
  \/ \E u \in Subs : stream_eof(u)
  \/ \E u \in Subs : stream_error(u)
  \/ \E u \in Subs : cancel(u)
  \/ \E u \in Subs : aclose(u)
  \/ \E u \in Subs : stream_done(u)

SpecTelemetry == TelemetryInit /\ [][TelemetryNext]_vars

\* ---------------------------------------------------- claims, SpecTelemetry
\* C18: a subscription whose device stream emitted N frames and then closed
\* has yielded exactly N snapshots, the i-th being the snapshot of the i-th
\* frame, and has terminated - however the bytes were split into reads.
C18_OneSnapshotPerFrame ==
  \A u \in Subs :
    (sub[u].pc = "ended" /\ sub[u].term = "eof")
    => sub[u].got = [i \in 1..sub[u].frames |-> sse_event(Frame(i))]

\* C19: a subscription that has ended - at the end of the stream, on a read
\* error or because its subscriber went away - has no open connection.
C19_StreamConnectionClosed ==
  \A u \in Subs : sub[u].pc \in {"ended", "idle"} => sub[u].conn # "open"

\* C19 witness: a subscription that had delivered a snapshot and was then
\* cancelled by its subscriber has ended with its connection closed.
C19_Witness ==
  \E u \in Subs :
    /\ sub[u].pc = "ended"
    /\ sub[u].term = "cancelled"
    /\ sub[u].got # << >>
    /\ sub[u].conn = "closed"

\* C20: whatever the number of subscribers, at most one connection to the
\* device's streaming port is open.
C20_SingleStreamConnection ==
  Cardinality({u \in Subs : sub[u].conn = "open"}) <= 1

\* ------------------------------------- claims, SpecSession: the store, shared
\* C21: a logout of a session that was in the store when the logout looked it
\* up, and that has heard from the device, has completed without error and the
\* session is not in the store - also when another logout of the same session
\* ran between its device call and its del.
C21_ConcurrentLogoutsAtomic ==
  \A h \in Handlers :
    (hnd[h].pc = "done" /\ hnd[h].op = "logout" /\ hnd[h].dev # "none")
    => /\ hnd[h].out.exc = "none"
       /\ hnd[h].sid \notin DOMAIN sessions

\* C24: a login that succeeds adds exactly one entry to the store, under a
\* session id that was never minted before and was not in the store, and the
\* entry holds the device's token, the username and createdAt; every entry
\* that was in the store is left as it was.
C24_LoginAddsOneEntry ==
  [][\A h \in Handlers :
       (/\ hnd[h].pc = "await_login"
        /\ hnd'[h].pc = "done"
        /\ hnd'[h].out.exc = "none")
       => (/\ hnd'[h].sid \notin minted
           /\ hnd'[h].sid \notin DOMAIN sessions
           /\ DOMAIN sessions' = DOMAIN sessions \cup {hnd'[h].sid}
           /\ sessions'[hnd'[h].sid].token = hnd'[h].out.val.token
           /\ sessions'[hnd'[h].sid].username = hnd[h].user
           /\ "createdAt" \in DOMAIN sessions'[hnd'[h].sid]
           /\ \A s \in DOMAIN sessions : sessions'[s] = sessions[s])]_vars

\* C25: a perm or browse that has sent its request to the device sent it with
\* the token the device issued for the presented session, never without one -
\* also when a logout of that session ran between require_session and
\* get_auth_token.
C25_PermBrowseCarryToken ==
  \A h \in Handlers :
    (/\ hnd[h].op \in {"perm", "browse"}
     /\ \/ hnd[h].pc = "await_rpc"
        \/ hnd[h].pc = "done" /\ hnd[h].dev # "none")
    => /\ hnd[h].token # "NONE"
       /\ hnd[h].sid \in DOMAIN issued
       /\ hnd[h].token = issued[hnd[h].sid]

\* C26: every stored session has a non-empty device token, and the store
\* changes in two ways only: a login that succeeds adds one entry, a logout
\* removes the entry of its session.  A login that fails and every step of a
\* protected operation (perm, browse, read, write) leave the store as it was.
C26_StoreFrame ==
  /\ [](\A s \in DOMAIN sessions : sessions[s].token \notin {"NONE", ""})
  /\ [][/\ sessions' # sessions =>
             \E h \in Handlers :
               \/ /\ hnd[h].op = "login" /\ hnd[h].pc = "await_login"
                  /\ hnd'[h].pc = "done" /\ hnd'[h].out.exc = "none"
                  /\ hnd'[h].sid \notin DOMAIN sessions
                  /\ DOMAIN sessions' = DOMAIN sessions \cup {hnd'[h].sid}
                  /\ \A s \in DOMAIN sessions : sessions'[s] = sessions[s]
               \/ /\ hnd[h].op = "logout" /\ hnd[h].pc = "await_logout"
                  /\ hnd'[h].pc = "done"
                  /\ DOMAIN sessions' = DOMAIN sessions \ {hnd[h].sid}
                  /\ \A s \in DOMAIN sessions' : sessions'[s] = sessions[s]
        /\ \A h \in Handlers :
             (/\ hnd'[h] # hnd[h]
              /\ \/ hnd'[h].op \in ProtectedOps
                 \/ hnd'[h].op = "login" /\ hnd'[h].pc = "done"
                      /\ hnd'[h].out.exc # "none")
             => sessions' = sessions]_vars

\* C26 witness: with a session in the store, a login that the device denied
\* and a protected operation that the device answered have both completed.
C26_Witness ==
  \E h \in Handlers, g \in Handlers :
    /\ DOMAIN sessions # {}
    /\ hnd[h].op = "login" /\ hnd[h].pc = "done" /\ hnd[h].dev # "none"
    /\ hnd[h].out.exc # "none"
    /\ hnd[g].op \in ProtectedOps /\ hnd[g].pc = "done" /\ hnd[g].dev # "none"

\* --------------------------------------------- claims, SpecRpc: the counters
CounterClients == {"AuboJsonRpcClient", "aubo_jsonrpc_call"}

\* C27: in AuboJsonRpcClient.call and aubo_jsonrpc_call the k-th call to start
\* carries the id k and keeps it until it ends, in success or in failure: the
\* counter is one ahead of the number of calls started, and two calls that are
\* under way at the same time carry different ids.
C27_CounterIds ==
  /\ [](client \in CounterClients =>
          /\ next_id = ncalls + 1
          /\ \A c \in Callers, d \in Callers :
               (c # d /\ calls[c].pc # "idle" /\ calls[d].pc # "idle")
               => calls[c].id # calls[d].id)
  /\ [][(client \in CounterClients) =>
          \A c \in Callers :
            /\ (calls[c].pc = "idle" /\ calls'[c].pc # "idle")
               => (/\ calls'[c].id = ncalls + 1
                   /\ ncalls' = ncalls + 1
                   /\ \A d \in Callers :
                        calls[d].pc # "idle" => calls[d].id < calls'[c].id)
            /\ (calls[c].pc # "idle" /\ calls'[c].pc # "idle")
               => (calls'[c].id = calls[c].id)]_vars

\* C27 witness: the first call has failed and holds id 1, a second call that
\* started while the first was outstanding holds id 2, and the counter has
\* moved on to 3.
C27_Witness ==
  \E c \in Callers, d \in Callers :
    /\ client \in CounterClients
    /\ calls[c].pc = "done" /\ calls[c].out.exc # "none" /\ calls[c].id = 1
    /\ calls[d].pc = "outstanding" /\ calls[d].id = 2
    /\ next_id = 3

MaxFrameSize == MaxStream - 1

\* C23: the bytes a call has accumulated for its response never number more
\* than the maximum frame size, also when the device keeps writing bytes and
\* no newline.
C23_MaxFrameSize == Len(tcp.data) <= MaxFrameSize

\* The device wrote one frame and the newline that ends it, and no more.
OneFrame(input) ==
  /\ EndsWithNewline(input)
  /\ ~HasNewline(SubSeq(input, 1, Len(input) - 1))

\* C29: when the device writes one frame and its newline, the outcome of the
\* call is what decoding those bytes in one piece gives, however many reads
\* they arrived in and whatever the device did after them.
C29_SplitIndependent ==
  (Exchanged /\ OneFrame(tcp.input))
  => (/\ tcp.data = tcp.input
      /\ tcp.out = decode(tcp_client, tcp.input))

\* C29 witness: a frame of several bytes has arrived one byte per read and
\* the call has returned its value.
C29_Witness ==
  /\ tcp.pc = "done"
  /\ OneFrame(tcp.input)
  /\ Len(tcp.input) >= 3
  /\ tcp.reads = Len(tcp.input)
  /\ tcp.out.shape = "value"
  /\ tcp.out.val = Len(tcp.input) - 1

\* ------------------------------- aubo_robot_controller: the one-shot status
\* GET /status without "accept: text/event-stream" awaits parse_rtde_status():
\* it opens a connection to the device's streaming port, awaits one
\* reader.read(4096), builds its status and closes the connection in a finally
\* block.  Neither await is wrapped in a timeout (asyncio.wait_for) and the
\* stream has none of its own, so the read resumes only when bytes arrive, the
\* device closes or the connection fails.  What the device does on a
\* connection is fixed when the request begins: it writes n frames and then
\* closes ("eof"), stays silent ("silent") or resets ("reset").
Requesters == {"r1", "r2"}

NoSnap ==
  [pc |-> "idle", conn |-> "none", feed |-> << >>, after |-> "eof",
   data |-> << >>, status |-> 0]

\* Lines 56-58 or the exception before the try: the coroutine is over and
\* get_status has answered (200 with the status, 500 on an exception).
SnapshotEnds(r, data, code) ==
  snap' = [snap EXCEPT ![r].pc = "ended", ![r].conn = writer_close(snap[r].conn),
                       ![r].data = data, ![r].status = code]

\* get_status, line 103: status = await parse_rtde_status().
get_status_snapshot(r, n, after) ==
  /\ UNCHANGED not_snapshot_vars
  /\ snap[r].pc = "idle"
  /\ snap' = [snap EXCEPT ![r] = [NoSnap EXCEPT !.pc = "opening",
                                    !.feed = DeviceStream(n), !.after = after]]

\* Line 42: the connection is made, or open_connection raises.
snapshot_open(r, ok) ==
  /\ UNCHANGED not_snapshot_vars
  /\ snap[r].pc = "opening"
  /\ IF ok
     THEN snap' = [snap EXCEPT ![r].pc = "reading", ![r].conn = "open"]
     ELSE SnapshotEnds(r, << >>, 500)

\* Lines 45-58: read returns the k bytes that have arrived; the status is
\* built, the connection closed and the status returned.
snapshot_read(r, k) ==
  /\ UNCHANGED not_snapshot_vars
  /\ snap[r].pc = "reading"
  /\ k <= Len(snap[r].feed)
  /\ SnapshotEnds(r, SubSeq(snap[r].feed, 1, k), 200)

\* Line 45: read returns b"" because the device closed; the status is
\* returned all the same.
snapshot_read_eof(r) ==
  /\ UNCHANGED not_snapshot_vars
  /\ snap[r].pc = "reading"
  /\ snap[r].feed = << >>
  /\ snap[r].after = "eof"
  /\ SnapshotEnds(r, << >>, 200)

\* Line 45: read raises ConnectionResetError.
snapshot_read_reset(r) ==
  /\ UNCHANGED not_snapshot_vars
  /\ snap[r].pc = "reading"
  /\ snap[r].feed = << >>
  /\ snap[r].after = "reset"
  /\ SnapshotEnds(r, << >>, 500)

\* The response has been written.
snapshot_done(r) ==
  /\ UNCHANGED not_snapshot_vars
  /\ snap[r].pc = "ended"
  /\ snap' = [snap EXCEPT ![r] = NoSnap]

SnapshotInit ==
  /\ SessionOff
  /\ RpcOff
  /\ RtdeOff
  /\ TcpOff
  /\ DispatchOff
  /\ TelemetryOff
  /\ snap = [r \in Requesters |-> NoSnap]

SnapshotNext ==
  \/ \E r \in Requesters, n \in 0..MaxFrames, a \in Afters :
        get_status_snapshot(r, n, a)
  \/ \E r \in Requesters, ok \in BOOLEAN : snapshot_open(r, ok)
  \/ \E r \in Requesters, k \in 1..(2 * MaxFrames) : snapshot_read(r, k)
  \/ \E r \in Requesters : snapshot_read_eof(r)
  \/ \E r \in Requesters : snapshot_read_reset(r)
  \/ \E r \in Requesters : snapshot_done(r)

SpecSnapshot == SnapshotInit /\ [][SnapshotNext]_vars

\* The event loop runs every coroutine that can go on: a step of a request
\* that is possible is taken.
SpecSnapshotLive ==
  /\ SpecSnapshot
  /\ \A r \in Requesters :
       /\ WF_vars(\E ok \in BOOLEAN : snapshot_open(r, ok))
       /\ WF_vars(\E k \in 1..(2 * MaxFrames) : snapshot_read(r, k))
       /\ WF_vars(snapshot_read_eof(r))
       /\ WF_vars(snapshot_read_reset(r))

\* ------------------------------------------------ claims, SpecSnapshotLive
\* C22: a one-shot status request whose connection was accepted by a device
\* that then sends nothing and keeps the connection open eventually ends.
C22_SnapshotTerminates ==
  \A r \in Requesters :
    (snap[r].pc = "reading" /\ snap[r].feed = << >> /\ snap[r].after = "silent")
    ~> (snap[r].pc = "ended")

====
